---- MODULE Spec2Model ----
(***************************************************************************)
(* Model of create_template_js.py: one procedure, create_template_js(),    *)
(* that creates the directory lib, checks that the workbook exists, reads  *)
(* it, base64-encodes its bytes and writes lib/template-data.js.           *)
(*                                                                         *)
(* The file system is the state.  Each file-system call of the procedure   *)
(* is one step, so that a failing call and a change of the file system     *)
(* between the existence check and the open can be observed.  Files are    *)
(* sequences: the workbook a sequence of byte values, the artifact a       *)
(* sequence of one-character strings.                                      *)
(***************************************************************************)
EXTENDS Integers, Sequences, FiniteSets, TLC

\* ------------------------------------------------------------------------
\* Bounds of the model
\* ------------------------------------------------------------------------

\* Longest workbook, in bytes.
MaxLen == 3

\* Byte values a workbook is made of.  251 = 0xFB: three of them encode to
\* "+/v7", so both non-alphanumeric characters of the alphabet occur.
ByteVals == {0, 251}

RECURSIVE SeqsUpTo(_, _)
SeqsUpTo(S, n) ==
    IF n = 0 THEN {<<>>}
    ELSE LET shorter == SeqsUpTo(S, n - 1)
         IN  shorter \cup {Append(s, b) : s \in {t \in shorter : Len(t) = n - 1}, b \in S}

Workbooks == SeqsUpTo(ByteVals, MaxLen)

\* ------------------------------------------------------------------------
\* The constants of the procedure
\* ------------------------------------------------------------------------

source_file == "MB Change Request Form.xlsx"
output_file == "lib/template-data.js"

\* The text of the f-string before and after {encoded}.
JsPrefix ==
    << "w","i","n","d","o","w",".","T","E","M","P","L","A","T","E","_",
       "D","A","T","A"," ","="," ","'" >>
JsSuffix == << "'", ";" >>

\* ------------------------------------------------------------------------
\* base64.b64encode(...).decode('utf-8')
\* ------------------------------------------------------------------------

StdAlphabet ==
    << "A","B","C","D","E","F","G","H","I","J","K","L","M","N","O","P",
       "Q","R","S","T","U","V","W","X","Y","Z","a","b","c","d","e","f",
       "g","h","i","j","k","l","m","n","o","p","q","r","s","t","u","v",
       "w","x","y","z","0","1","2","3","4","5","6","7","8","9","+","/" >>

\* Variant: the alphabet of base64.urlsafe_b64encode.
UrlSafeAlphabet ==
    [i \in 1..64 |-> IF i = 63 THEN "-" ELSE IF i = 64 THEN "_" ELSE StdAlphabet[i]]

Alphabet == StdAlphabet

PadChar == "="

Sextet(n) == Alphabet[n + 1]

\* A full group of three bytes gives four characters.
EncodeGroup3(b1, b2, b3) ==
    LET n == b1 * 65536 + b2 * 256 + b3
    IN  << Sextet(n \div 262144), Sextet((n \div 4096) % 64),
           Sextet((n \div 64) % 64), Sextet(n % 64) >>

\* Variant: the last sextet of a two-byte group is not shifted.
EncodeGroup2NoShift(b1, b2) ==
    LET n == b1 * 256 + b2
    IN  << Sextet(n \div 1024), Sextet((n \div 16) % 64), Sextet(n % 16), PadChar >>

\* A last group of two bytes gives three characters and one pad.
EncodeGroup2(b1, b2) ==
    LET n == (b1 * 256 + b2) * 4
    IN  << Sextet(n \div 4096), Sextet((n \div 64) % 64), Sextet(n % 64), PadChar >>

\* A last group of one byte gives two characters and two pads.
EncodeGroup1(b1) ==
    LET n == b1 * 16
    IN  << Sextet(n \div 64), Sextet(n % 64), PadChar, PadChar >>

RECURSIVE b64encode(_)
b64encode(bytes) ==
    IF Len(bytes) = 0 THEN <<>>
    ELSE IF Len(bytes) = 1 THEN EncodeGroup1(bytes[1])
    ELSE IF Len(bytes) = 2 THEN EncodeGroup2(bytes[1], bytes[2])
    ELSE EncodeGroup3(bytes[1], bytes[2], bytes[3])
         \o b64encode(SubSeq(bytes, 4, Len(bytes)))

\* js_content = f"window.TEMPLATE_DATA = '{encoded}';"
Compose(enc) == JsPrefix \o enc \o JsSuffix

\* The artifact of a workbook: what a run writes for its bytes.
Artifact(bytes) == Compose(b64encode(bytes))

\* ------------------------------------------------------------------------
\* The file system and the run
\* ------------------------------------------------------------------------

NoFile == [exists |-> FALSE, data |-> <<>>]
File(d) == [exists |-> TRUE, data |-> d]

\* The lines the procedure prints, as the pieces of their f-strings.
NotFoundLine ==
    << "Error: '", source_file,
       "' not found. Please place your Excel file in this folder." >>
SuccessLine == << "Success! Created ", output_file >>
HintLine    == << "Link this file in your index.html before app.js" >>
ErrorLine(e) == << "Error: ", e >>

\* The exceptions the file-system calls raise.
Exceptions == {"FileExistsError", "FileNotFoundError", "PermissionError", "OSError"}

VARIABLES
    pc,          \* position of the procedure: "idle" between runs
    src,         \* the workbook 'MB Change Request Form.xlsx'
    lib,         \* the path lib: "absent", "dir" or "file"
    out,         \* lib/template-data.js
    encoded,     \* local variable encoded
    js_content,  \* local variable js_content
    printed,     \* lines printed by the current run
    raised,      \* exception that left the procedure, or "none"
    fault,       \* the call of the current run that failed, or "none"
    ops,         \* file-system calls of the current run, in order
    src0,        \* the workbook as it was when the current run started
    lib0,        \* lib as it was when the current run started
    out0,        \* the output file as it was when the current run started
    prev,        \* how the previous run ended
    lastOut      \* the output file after the previous run, if it succeeded
                 \* and the workbook was not changed since

vars == << pc, src, lib, out, encoded, js_content, printed, raised, fault,
           ops, src0, lib0, out0, prev, lastOut >>

locals == << encoded, js_content >>
fs     == << src, lib, out >>
start  == << src0, lib0, out0 >>
hist   == << prev, lastOut >>

Init ==
    /\ pc = "idle"
    /\ src \in {NoFile} \cup {File(b) : b \in Workbooks}
    /\ lib \in {"absent", "dir", "file"}
    /\ out = NoFile
    /\ encoded = <<>>
    /\ js_content = <<>>
    /\ printed = <<>>
    /\ raised = "none"
    /\ fault = "none"
    /\ ops = <<>>
    /\ src0 = NoFile
    /\ lib0 = "absent"
    /\ out0 = NoFile
    /\ prev = "none"
    /\ lastOut = NoFile

\* ---- the environment, between runs ----

\* The operator saves a workbook under the fixed name.
EnvWriteSource ==
    /\ pc = "idle"
    /\ \E b \in Workbooks :
          /\ src # File(b)
          /\ src' = File(b)
    /\ prev' = IF prev = "success" THEN "none" ELSE prev
    /\ lastOut' = NoFile
    /\ UNCHANGED << pc, lib, out, locals, printed, raised, fault, ops, start >>

\* The workbook is removed: between runs, or between the existence check
\* and the open of a run.
EnvRemoveSource ==
    /\ pc \in {"idle", "open_src"}
    /\ src.exists
    /\ src' = NoFile
    /\ prev' = IF prev = "success" THEN "none" ELSE prev
    /\ lastOut' = NoFile
    /\ UNCHANGED << pc, lib, out, locals, printed, raised, fault, ops, start >>

\* lib is removed with what it holds.
EnvRemoveLib ==
    /\ pc = "idle"
    /\ lib # "absent"
    /\ lib' = "absent"
    /\ out' = NoFile
    /\ UNCHANGED << pc, src, locals, printed, raised, fault, ops, start, hist >>

\* A regular file is put where the directory lib is expected.
EnvMakeLibFile ==
    /\ pc = "idle"
    /\ lib = "absent"
    /\ lib' = "file"
    /\ UNCHANGED << pc, src, out, locals, printed, raised, fault, ops, start, hist >>

\* The artifact is deleted.
EnvRemoveOutput ==
    /\ pc = "idle"
    /\ out.exists
    /\ out' = NoFile
    /\ UNCHANGED << pc, src, lib, locals, printed, raised, fault, ops, start, hist >>

\* ---- create_template_js() ----

\* The call of create_template_js().
Call ==
    /\ pc = "idle"
    /\ pc' = "makedirs"
    /\ printed' = <<>>
    /\ raised' = "none"
    /\ fault' = "none"
    /\ ops' = <<>>
    /\ src0' = src
    /\ lib0' = lib
    /\ out0' = out
    /\ UNCHANGED << fs, locals, hist >>

\* An exception raised outside the try block leaves the procedure.
Propagate(call, e) ==
    /\ pc' = "done"
    /\ raised' = e
    /\ fault' = call
    /\ UNCHANGED printed

\* Variant: the handler prints and raises again.
CaughtAndRaised(call, e) ==
    /\ pc' = "done"
    /\ printed' = Append(printed, ErrorLine(e))
    /\ fault' = call
    /\ raised' = e

\* Variant: the success report stands after the try statement.
CaughtThenSuccess(call, e) ==
    /\ pc' = "done"
    /\ printed' = Append(printed, ErrorLine(e)) \o << SuccessLine, HintLine >>
    /\ fault' = call
    /\ UNCHANGED raised

\* An exception raised inside the try block: print(f"Error: {e}").
Caught(call, e) ==
    /\ pc' = "done"
    /\ printed' = Append(printed, ErrorLine(e))
    /\ fault' = call
    /\ UNCHANGED raised

\* What os.makedirs does to a path in state l: the state it leaves and the
\* exception it raises ("none": it returns normally).
Ok(l)       == [lib |-> l, exc |-> "none"]
Raise(l, e) == [lib |-> l, exc |-> e]

\* Variant: os.makedirs('lib'), without exist_ok.
makedirs_strict(l) ==
    IF l = "absent" THEN {Ok("dir"), Raise("absent", "PermissionError")}
    ELSE {Raise(l, "FileExistsError")}

\* os.makedirs(..., exist_ok=True): an existing directory is left alone, a
\* path that exists and is no directory raises FileExistsError, and the
\* creation itself can be refused.
makedirs(l) ==
    IF l = "dir" THEN {Ok("dir")}
    ELSE IF l = "absent" THEN {Ok("dir"), Raise("absent", "PermissionError")}
    ELSE {Raise(l, "FileExistsError")}

\* os.makedirs('lib', exist_ok=True)
MakeDirs ==
    /\ pc = "makedirs"
    /\ ops' = Append(ops, "makedirs")
    /\ \E r \in makedirs(lib) :
          /\ lib' = r.lib
          /\ \/ /\ r.exc = "none"
                /\ pc' = "exists"
                /\ UNCHANGED << printed, raised, fault >>
             \/ /\ r.exc # "none"
                /\ Propagate("makedirs", r.exc)
    /\ UNCHANGED << src, out, locals, start, hist >>

\* Variant: the check is missing.
AlwaysExists(f) == TRUE

\* os.path.exists(source_file)
path_exists(f) == f.exists

\* Variant: the return after the not-found report is missing.
FallThrough == "open_src"

\* Where the return after the not-found report leads.
AfterNotFound == "done"

\* if not os.path.exists(source_file): print(...); return
ExistsCheck ==
    /\ pc = "exists"
    /\ ops' = Append(ops, "exists")
    /\ IF path_exists(src)
         THEN /\ pc' = "open_src"
              /\ UNCHANGED printed
         ELSE /\ pc' = AfterNotFound
              /\ printed' = Append(printed, NotFoundLine)
    /\ UNCHANGED << fs, locals, raised, fault, start, hist >>

\* with open(source_file, 'rb') as f:
OpenSource ==
    /\ pc = "open_src"
    /\ ops' = Append(ops, "open_r")
    /\ \/ /\ src.exists
          /\ pc' = "read"
          /\ UNCHANGED << printed, raised, fault >>
       \/ /\ src.exists
          /\ Caught("open_src", "PermissionError")
       \/ /\ ~src.exists
          /\ Caught("open_src", "FileNotFoundError")
    /\ UNCHANGED << fs, locals, start, hist >>

\* encoded = base64.b64encode(f.read()).decode('utf-8')
\* js_content = f"window.TEMPLATE_DATA = '{encoded}';"
ReadEncode ==
    /\ pc = "read"
    /\ ops' = Append(ops, "read")
    /\ \/ /\ encoded' = b64encode(src.data)
          /\ js_content' = Compose(encoded')
          /\ pc' = "open_out"
          /\ UNCHANGED << printed, raised, fault >>
       \/ /\ Caught("read", "OSError")
          /\ UNCHANGED locals
    /\ UNCHANGED << fs, start, hist >>

\* Variant: the file is opened for writing without truncation.
OpenedNoTruncate(f) == IF f.exists THEN f ELSE File(<<>>)

\* What open(output_file, 'w') leaves of the file f: mode 'w' creates it or
\* truncates it to length zero.
OpenedWrite(f) == File(<<>>)

\* The file data after text is written at position 0.
WrittenAt0(data, text) ==
    text \o SubSeq(data, Len(text) + 1, Len(data))

\* with open(output_file, 'w') as f:
OpenOutput ==
    /\ pc = "open_out"
    /\ ops' = Append(ops, "open_w")
    /\ \/ /\ out' = OpenedWrite(out)
          /\ pc' = "write"
          /\ UNCHANGED << printed, raised, fault >>
       \/ /\ Caught("open_out", "PermissionError")
          /\ UNCHANGED out
    /\ UNCHANGED << src, lib, locals, start, hist >>

\* f.write(js_content) and the close at the end of the with block.  The
\* text reaches the file when the buffer is flushed; a failing flush or
\* close leaves any number of its characters in the file.
WriteClose ==
    /\ pc = "write"
    /\ ops' = Append(ops, "write")
    /\ \/ /\ out' = File(WrittenAt0(out.data, js_content))
          /\ pc' = "print"
          /\ UNCHANGED << printed, raised, fault >>
       \/ \E k \in 0..Len(js_content) :
             /\ out' = File(WrittenAt0(out.data, SubSeq(js_content, 1, k)))
             /\ Caught("write", "OSError")
    /\ UNCHANGED << src, lib, locals, start, hist >>

\* print(f"Success! Created {output_file}"); print("Link this file ...")
PrintSuccess ==
    /\ pc = "print"
    /\ printed' = printed \o << SuccessLine, HintLine >>
    /\ pc' = "done"
    /\ UNCHANGED << fs, locals, raised, fault, ops, start, hist >>

\* How the run that is at its end has ended.
Outcome ==
    IF raised # "none" THEN "raised"
    ELSE IF printed = << NotFoundLine >> THEN "notfound"
    ELSE IF printed = << SuccessLine, HintLine >> THEN "success"
    ELSE "error"

\* The procedure returns (or the exception reaches its caller).
Return ==
    /\ pc = "done"
    /\ pc' = "idle"
    /\ prev' = Outcome
    /\ lastOut' = IF Outcome = "success" THEN out ELSE NoFile
    /\ encoded' = <<>>
    /\ js_content' = <<>>
    /\ src0' = NoFile
    /\ lib0' = "absent"
    /\ out0' = NoFile
    /\ UNCHANGED << fs, printed, raised, fault, ops >>

Next ==
    \/ EnvWriteSource
    \/ EnvRemoveSource
    \/ EnvRemoveLib
    \/ EnvMakeLibFile
    \/ EnvRemoveOutput
    \/ Call
    \/ MakeDirs
    \/ ExistsCheck
    \/ OpenSource
    \/ ReadEncode
    \/ OpenOutput
    \/ WriteClose
    \/ PrintSuccess
    \/ Return

Spec == Init /\ [][Next]_vars

TypeOK ==
    /\ pc \in {"idle", "makedirs", "exists", "open_src", "read", "open_out",
               "write", "print", "done"}
    /\ lib \in {"absent", "dir", "file"}
    /\ src.exists \in BOOLEAN
    /\ out.exists => lib = "dir"
    /\ raised \in Exceptions \cup {"none"}

\* ------------------------------------------------------------------------
\* Vocabulary of the properties
\* ------------------------------------------------------------------------

Range(s) == {s[i] : i \in DOMAIN s}

IsPrefix(p, s) == Len(p) <= Len(s) /\ SubSeq(s, 1, Len(p)) = p

AtEnd == pc = "done"

Succeeded == printed = << SuccessLine, HintLine >>

IsErrorReport(p) == \E e \in Exceptions : p = << ErrorLine(e) >>

\* A reference base64 decoder (RFC 4648), independent of the encoder above.
Base64Chars == Range(StdAlphabet) \cup {PadChar}

CharValue(c) == CHOOSE i \in 0..63 : StdAlphabet[i + 1] = c

PadCount(t) ==
    IF Len(t) >= 2 /\ t[Len(t)] = PadChar /\ t[Len(t) - 1] = PadChar THEN 2
    ELSE IF Len(t) >= 1 /\ t[Len(t)] = PadChar THEN 1
    ELSE 0

WellFormed(t) ==
    /\ Len(t) % 4 = 0
    /\ \A i \in 1..(Len(t) - PadCount(t)) : t[i] \in Range(StdAlphabet)

RECURSIVE DecodeSextets(_)
DecodeSextets(v) ==
    IF Len(v) >= 4 THEN
        LET n == v[1] * 262144 + v[2] * 4096 + v[3] * 64 + v[4]
        IN  << n \div 65536, (n \div 256) % 256, n % 256 >>
            \o DecodeSextets(SubSeq(v, 5, Len(v)))
    ELSE IF Len(v) = 3 THEN
        LET n == v[1] * 4096 + v[2] * 64 + v[3]
        IN  << n \div 1024, (n \div 4) % 256 >>
    ELSE IF Len(v) = 2 THEN
        LET n == v[1] * 64 + v[2]
        IN  << n \div 16 >>
    ELSE <<>>

\* The bytes a text decodes to; << -1 >> for a text that is not base64.
b64decode(t) ==
    IF ~WellFormed(t) THEN << -1 >>
    ELSE LET body == SubSeq(t, 1, Len(t) - PadCount(t))
         IN  DecodeSextets([i \in 1..Len(body) |-> CharValue(body[i])])

Quotes(s) == {i \in 1..Len(s) : s[i] = "'"}

\* The text between the two single quotes of s; << "?" >> if s has not
\* exactly two.
BetweenQuotes(s) ==
    IF Cardinality(Quotes(s)) # 2 THEN << "?" >>
    ELSE LET a == CHOOSE i \in Quotes(s) : \A j \in Quotes(s) : i <= j
             b == CHOOSE i \in Quotes(s) : \A j \in Quotes(s) : j <= i
         IN  SubSeq(s, a + 1, b - 1)

\* s is window.TEMPLATE_DATA = '<text>'; with <text> in the base64 alphabet.
MatchesPattern(s) ==
    /\ Len(s) >= Len(JsPrefix) + Len(JsSuffix)
    /\ SubSeq(s, 1, Len(JsPrefix)) = JsPrefix
    /\ SubSeq(s, Len(s) - Len(JsSuffix) + 1, Len(s)) = JsSuffix
    /\ \A i \in (Len(JsPrefix) + 1)..(Len(s) - Len(JsSuffix)) : s[i] \in Base64Chars

\* ------------------------------------------------------------------------
\* Properties
\* ------------------------------------------------------------------------

\* C1: round trip.  At the end of a run that started with the workbook
\* holding bytes B and in which no call failed, the output file exists, has
\* exactly two single quotes, and the text between them base64-decodes to B.
C1_RoundTrip ==
    (AtEnd /\ src0.exists /\ fault = "none") =>
        /\ out.exists
        /\ Cardinality(Quotes(out.data)) = 2
        /\ b64decode(BetweenQuotes(out.data)) = src0.data

\* A run has completed for a two-byte workbook (one pad character).
C1_Witness ==
    /\ AtEnd /\ fault = "none" /\ src0 = File(<< 0, 251 >>)
    /\ out.exists /\ b64decode(BetweenQuotes(out.data)) = << 0, 251 >>

C3_NoFailureEscapes ==
    (AtEnd /\ fault # "none") => (raised = "none" /\ IsErrorReport(printed))

\* C4: a run that starts with the workbook absent (and gets past the creation
\* of lib) prints the not-found line alone and leaves the output file as it
\* was; and a run made after a not-found run, with the workbook now present
\* and no call failing, writes the artifact and reports success.
C4_AbsentThenCreated ==
    /\ (AtEnd /\ ~src0.exists /\ fault # "makedirs") =>
           (printed = << NotFoundLine >> /\ raised = "none" /\ out = out0)
    /\ (AtEnd /\ prev = "notfound" /\ src0.exists /\ fault = "none") =>
           (Succeeded /\ out = File(Artifact(src0.data)))

\* The run after a not-found run has written the artifact.
C4_Witness ==
    /\ AtEnd /\ prev = "notfound" /\ src0.exists
    /\ Succeeded /\ out = File(Artifact(src0.data))

C6_Idempotent ==
    (AtEnd /\ Succeeded) =>
        /\ out = File(Artifact(src0.data))
        /\ prev = "success" => out = lastOut

\* A second successful run on an unchanged workbook has rewritten the file.
C6_Witness ==
    /\ AtEnd /\ Succeeded /\ prev = "success"
    /\ out0.exists /\ out = lastOut

\* C7: at the end of a run in which the workbook exists and its open or read
\* failed, exactly one "Error: ..." line is printed, no exception left the
\* procedure, the output file was never opened and is as it was.
C7_UnreadableSource ==
    (AtEnd /\ src.exists /\ fault \in {"open_src", "read"}) =>
        /\ IsErrorReport(printed)
        /\ raised = "none"
        /\ "open_w" \notin Range(ops)
        /\ out = out0

\* Permission to open the workbook was denied; an earlier artifact is kept.
C7_Witness ==
    /\ AtEnd /\ src.exists /\ fault = "open_src"
    /\ printed = << ErrorLine("PermissionError") >>
    /\ out0.exists /\ out = out0

\* C8: a run that starts without lib, with the workbook present, and in which
\* no call fails ends with lib a directory, the artifact written and success
\* reported; and the creation step on an existing directory lib changes
\* nothing, raises nothing and goes on to the existence check.
C8_DirectoryCreated ==
    /\ [](( AtEnd /\ lib0 = "absent" /\ src0.exists /\ fault = "none") =>
            (lib = "dir" /\ Succeeded /\ out = File(Artifact(src0.data))))
    /\ [][(pc = "makedirs" /\ lib = "dir") =>
            (pc' = "exists" /\ raised' = "none" /\ UNCHANGED << src, lib, out >>)]_vars

\* A run that found no lib has created it and written the artifact.
C8_Witness ==
    /\ AtEnd /\ lib0 = "absent" /\ lib = "dir" /\ src0.exists
    /\ Succeeded /\ out.exists

\* C9 as stated: a run that reports the workbook missing leaves the file
\* system, the path lib included, as it found it.
C9_NoFileSystemChange ==
    (AtEnd /\ NotFoundLine \in Range(printed)) =>
        (src = src0 /\ lib = lib0 /\ out = out0)

\* C9 as amended: a run that reports the workbook missing has made exactly
\* two file-system calls, the creation of lib and then the existence check:
\* it opened, read and wrote no file, the workbook and the output file are as
\* they were, and lib, if it was absent, now is a directory.
C9_OnlyDirectoryCreated ==
    (AtEnd /\ NotFoundLine \in Range(printed)) =>
        /\ ops = << "makedirs", "exists" >>
        /\ src = src0 /\ out = out0
        /\ lib = "dir" /\ lib0 \in {"absent", "dir"}

\* A not-found run has created lib.
C9_Witness ==
    /\ AtEnd /\ printed = << NotFoundLine >>
    /\ lib0 = "absent" /\ lib = "dir"

\* C10: at the end of a run from which no exception escaped, what was printed
\* is exactly one of: the not-found line, the success line with the hint, one
\* "Error: ..." line.  Success is printed only with the whole artifact in the
\* closed file and no failed call; and a workbook removed between the
\* existence check and the open gives the "Error: ..." report.
C10_OneOutcomeReport ==
    (AtEnd /\ raised = "none") =>
        /\ \/ printed = << NotFoundLine >>
           \/ Succeeded
           \/ IsErrorReport(printed)
        /\ SuccessLine \in Range(printed) =>
              /\ fault = "none"
              /\ ops = << "makedirs", "exists", "open_r", "read", "open_w", "write" >>
              /\ out = File(js_content)
        /\ (src0.exists /\ ~src.exists) =>
              printed = << ErrorLine("FileNotFoundError") >>

\* The workbook was removed between the existence check and the open.
C10_Witness ==
    /\ AtEnd /\ src0.exists /\ ~src.exists
    /\ ops = << "makedirs", "exists", "open_r" >>
    /\ printed = << ErrorLine("FileNotFoundError") >>
====
